---- MODULE Spec2Model ----
(***************************************************************************)
(* The static PQ load of andes/models/pq.py: the residual evaluation       *)
(* (PQ.gcall), the Jacobian evaluation (PQ.gycall) and the two             *)
(* initialisers (init0, init1), acting on the global structure dae         *)
(* (y: the iterate, g: the algebraic residual, Gy: the dg/dy block).       *)
(*                                                                         *)
(* Real numbers are exact rationals <<num, den>>, den > 0, in lowest       *)
(* terms, so that equalities stated "within floating-point rounding" are   *)
(* checked exactly.                                                        *)
(***************************************************************************)
EXTENDS Integers, Sequences, FiniteSets, TLC

\* ------------------------------------------------------------- bounds
\* largest number of PQ instances (self.n)
MaxN == 3
\* number of offsets of dae.y / dae.g (dae.m)
NOff == 3
\* the instance count up to which gcall takes the per-instance loop
\* (400 in the source, scaled so that instance counts below, at and
\* above it are reached)
Threshold == 2

Offsets == 1..NOff

\* --------------------------------------------------- exact arithmetic
RECURSIVE GCD(_, _)
GCD(x, y) == IF y = 0 THEN x ELSE GCD(y, x % y)

Abs(x) == IF x < 0 THEN -x ELSE x

\* the rational x/d in lowest terms, d # 0
Rat(x, d) ==
    LET c == GCD(Abs(x), Abs(d))
        s == IF d < 0 THEN -1 ELSE 1
    IN  <<(s * x) \div c, (s * d) \div c>>

Zero == <<0, 1>>
One == <<1, 1>>
Two == <<2, 1>>

RAdd(r, s) ==
    IF r[1] = 0 THEN s
    ELSE IF s[1] = 0 THEN r
    ELSE IF r[2] = s[2] THEN Rat(r[1] + s[1], r[2])
    ELSE LET c == GCD(r[2], s[2])
         IN  Rat(r[1] * (s[2] \div c) + s[1] * (r[2] \div c),
                 (r[2] \div c) * s[2])

RMul(r, s) ==
    IF r[1] = 0 \/ s[1] = 0 THEN Zero
    ELSE IF r = One THEN s
    ELSE IF s = One THEN r
    ELSE Rat(r[1] * s[1], r[2] * s[2])

\* r / s, s # 0
RDiv(r, s) == RMul(r, IF s[1] < 0 THEN <<-s[2], -s[1]>> ELSE <<s[2], s[1]>>)

RSq(r) == RMul(r, r)

RLt(r, s) == r[1] * s[2] < s[1] * r[2]
RLe(r, s) == r[1] * s[2] <= s[1] * r[2]

\* ------------------------------------------- cvxopt element-wise calls
\* ones(n, 1), zeros(n, 1)
ones(k) == [i \in 1..k |-> One]
zeros(k) == [i \in 1..k |-> Zero]

\* mul(x, y), div(x, y), x + y and x ** 2 on column vectors
mul(x, z) == [i \in DOMAIN x |-> RMul(x[i], z[i])]
div(x, z) == [i \in DOMAIN x |-> RDiv(x[i], z[i])]
vadd(x, z) == [i \in DOMAIN x |-> RAdd(x[i], z[i])]
sq(x) == [i \in DOMAIN x |-> RSq(x[i])]
scal(c, x) == [i \in DOMAIN x |-> RMul(c, x[i])]

\* the truth value of a cvxopt matrix, or of a service never assigned
Truthy(x) == \E i \in DOMAIN x : x[i] # Zero

\* ------------------------------------------- andes.utils.math helpers
\* element-wise logic on vectors, with results 1 and 0
altb(x, z) == [i \in DOMAIN x |-> IF RLe(x[i], z[i]) THEN One ELSE Zero]
\* agtb with a strict comparison
agtbStrict(x, z) == [i \in DOMAIN x |-> IF RLt(z[i], x[i]) THEN One ELSE Zero]
agtb(x, z) == [i \in DOMAIN x |-> IF RLe(z[i], x[i]) THEN One ELSE Zero]
aorb(x, z) == [i \in DOMAIN x |-> IF x[i] # Zero \/ z[i] # Zero THEN One ELSE Zero]
nota(x) == [i \in DOMAIN x |-> IF x[i] = Zero THEN One ELSE Zero]

\* ------------------------------------------------------------- state
\* dae is the argument of every call.  y, g and Gy are the dae of the last
\* call as that call left it; what a call finds in dae.y is its input, and
\* what it finds in dae.g and Gy is what the models evaluated before PQ
\* wrote there (GPrior, GyPrior).
VARIABLES
    n, a, v, p, q, u, vmin, vmax,   \* the PQ instances: count, offsets, data
    forcez, forcepq,                \* system.config
    y, g, Gy,                       \* dae.y, dae.g and the Gy block of dae
    p0, q0, v0, below, above,       \* the services of PQ (self._service)
    normal, k,                      \* the locals normal and k of the last gcall
    kbranch,                        \* the branch of gcall that set its k
    kJ,                             \* the local k of the last gycall
    last, follows                   \* the last call, and whether it is a
                                    \* gycall right after a gcall on the
                                    \* same iterate

params == <<n, a, v, p, q, u, vmin, vmax, forcez, forcepq>>
vars == <<n, a, v, p, q, u, vmin, vmax, forcez, forcepq, y, g, Gy,
          p0, q0, v0, below, above, normal, k, kbranch, kJ, last, follows>>

\* ------------------------------------------------------------- inputs
\* bus voltages in per unit: 0.8, 0.9, 1.0, 1.1, 1.2
Volts == {<<4, 5>>, <<9, 10>>, One, <<11, 10>>, <<6, 5>>}

\* the iterates the solver passes in: every bus at the same voltage
Iterates == {[j \in Offsets |-> x] : x \in Volts}

\* the loads of a case: what one PQ instance may be.  vmin and vmax are
\* the defaults of the model (0.9, 1.1) or a wider band.
PQCases ==
    { [a |-> 1, v |-> 2, p |-> <<5, 1>>, q |-> <<2, 1>>, u |-> One,
       vmin |-> <<9, 10>>, vmax |-> <<11, 10>>],
      [a |-> 1, v |-> 2, p |-> <<3, 1>>, q |-> <<7, 1>>, u |-> One,
       vmin |-> <<9, 10>>, vmax |-> <<11, 10>>],
      [a |-> 2, v |-> 1, p |-> <<3, 1>>, q |-> <<2, 1>>, u |-> One,
       vmin |-> <<4, 5>>, vmax |-> <<6, 5>>],
      [a |-> 3, v |-> 2, p |-> <<5, 1>>, q |-> <<7, 1>>, u |-> Zero,
       vmin |-> <<9, 10>>, vmax |-> <<11, 10>>] }

\* what the models evaluated before PQ left in dae.g and in Gy
GPrior == [j \in Offsets |-> <<j, 1>>]
GyPrior == [c \in Offsets \X Offsets |-> <<c[1] + c[2], 1>>]

\* the solution dae.y holds when the run is set up: every bus at 1.1
Y0 == [j \in Offsets |-> <<11, 10>>]

\* a service that was never assigned
Unset == <<>>

Init ==
    /\ n \in 1..MaxN
    /\ \E dev \in [1..n -> PQCases] :
        /\ a = [i \in 1..n |-> dev[i].a]
        /\ v = [i \in 1..n |-> dev[i].v]
        /\ p = [i \in 1..n |-> dev[i].p]
        /\ q = [i \in 1..n |-> dev[i].q]
        /\ u = [i \in 1..n |-> dev[i].u]
        /\ vmin = [i \in 1..n |-> dev[i].vmin]
        /\ vmax = [i \in 1..n |-> dev[i].vmax]
    /\ forcez \in BOOLEAN
    /\ forcepq \in BOOLEAN
    /\ y = Y0
    /\ g = GPrior
    /\ Gy = GyPrior
    /\ p0 = Unset /\ q0 = Unset /\ v0 = Unset
    /\ below = Unset /\ above = Unset
    /\ normal = Unset /\ k = Unset /\ kJ = Unset
    /\ kbranch = "none"
    /\ last = "none" /\ follows = FALSE

\* dae.y[self.v]
yv(yy) == [i \in 1..n |-> yy[v[i]]]

\* -------------------------------------------------------- init0, init1
\* The two initialisers run once, before the evaluations: init0 first, and
\* init1 on the solution dae.y holds when the run is set up.
init0 ==
    /\ last = "none" /\ p0 = Unset
    /\ p0' = p
    /\ q0' = q
    /\ UNCHANGED <<params, y, g, Gy, v0, below, above, normal, k, kbranch,
                   kJ, last, follows>>

init1 ==
    /\ last = "none" /\ v0 = Unset
    /\ v0' = yv(y)
    /\ UNCHANGED <<params, y, g, Gy, p0, q0, below, above, normal, k,
                   kbranch, kJ, last, follows>>

\* ---------------------------------------------------------------- gcall
\* KSwitch with the above branch scaled by vmin
KSwitchVmin(volt, bl, ab, nm) ==
    LET k1 == vadd(zeros(n), mul(bl, div(sq(volt), sq(vmin))))
        k2 == vadd(k1, mul(ab, div(sq(volt), sq(vmin))))
    IN  vadd(k2, mul(nm, ones(n)))

\* KSwitch with the below branch divided by vmin, not by its square
KSwitchUnsquared(volt, bl, ab, nm) ==
    LET k1 == vadd(zeros(n), mul(bl, div(sq(volt), vmin)))
        k2 == vadd(k1, mul(ab, div(sq(volt), sq(vmax))))
    IN  vadd(k2, mul(nm, ones(n)))

\* the switching branch of gcall: k from the indicators
KSwitch(volt, bl, ab, nm) ==
    LET k1 == vadd(zeros(n), mul(bl, div(sq(volt), sq(vmin))))
        k2 == vadd(k1, mul(ab, div(sq(volt), sq(vmax))))
    IN  vadd(k2, mul(nm, ones(n)))

\* Normal that forgets above
NormalBelowOnly(bl, ab) == nota(bl)

\* normal = nota(aorb(self.below, self.above))
Normal(bl, ab) == nota(aorb(bl, ab))

\* the branch gcall takes under the configuration
GBranch ==
    IF forcez THEN (IF Truthy(v0) THEN "z" ELSE "one")
    ELSE IF forcepq THEN "one"
    ELSE "switch"

\* Accum that overwrites
AccumOverwrite(gg, j, x) == [gg EXCEPT ![j] = x]

\* dae.g[j] += x
Accum(gg, j, x) == [gg EXCEPT ![j] = RAdd(@, x)]

\* zip(self.a, self.v, self.p0, self.q0)
Zip(aa, vv, pp, qq) == [i \in 1..Len(aa) |-> <<aa[i], vv[i], pp[i], qq[i]>>]

\* the per-instance loop of gcall
RECURSIVE LoopPath(_, _)
LoopPath(gg, zs) ==
    IF zs = <<>> THEN gg
    ELSE LET t == Head(zs)
         IN  LoopPath(Accum(Accum(gg, t[1], t[3]), t[2], t[4]), Tail(zs))

\* CooSum where the last entry of a row replaces the earlier ones
RECURSIVE CooSumLastWins(_, _, _, _)
CooSumLastWins(data, rows, j, i) ==
    IF i = 0 THEN Zero
    ELSE IF rows[i] = j THEN data[i]
    ELSE CooSumLastWins(data, rows, j, i - 1)

\* coo_matrix((data, (rows, 0)), shape=(dae.m, 1)).toarray(): entries with
\* the same row are summed
RECURSIVE CooSum(_, _, _, _)
CooSum(data, rows, j, i) ==
    IF i = 0 THEN Zero
    ELSE RAdd(CooSum(data, rows, j, i - 1),
              IF rows[i] = j THEN data[i] ELSE Zero)

CooToArray(data, rows) == [j \in Offsets |-> CooSum(data, rows, j, Len(rows))]

\* CooPath that assigns the two arrays instead of adding them to dae.g
CooPathAssign(gg, aa, vv, pp, qq) ==
    vadd(CooToArray(pp, aa), CooToArray(qq, vv))

\* the coordinate-list path of gcall
CooPath(gg, aa, vv, pp, qq) ==
    vadd(vadd(gg, CooToArray(pp, aa)), CooToArray(qq, vv))

\* the assembly of gcall: the loop up to Threshold instances
Assemble(gg, aa, vv, pp, qq) ==
    IF Len(aa) <= Threshold THEN LoopPath(gg, Zip(aa, vv, pp, qq))
    ELSE CooPath(gg, aa, vv, pp, qq)

gcall(yy) ==
    /\ y' = yy
    /\ kbranch' = GBranch
    /\ IF kbranch' = "switch"
       THEN /\ below' = altb(yv(yy), vmin)
            /\ above' = agtb(yv(yy), vmax)
            /\ normal' = Normal(below', above')
            /\ k' = mul(u, KSwitch(yv(yy), below', above', normal'))
       ELSE /\ UNCHANGED <<below, above, normal>>
            /\ k' = mul(u, IF kbranch' = "z" THEN div(sq(yv(yy)), sq(v0))
                                             ELSE ones(n))
    /\ p0' = mul(k', p)
    /\ q0' = mul(k', q)
    /\ g' = Assemble(GPrior, a, v, p0', q0')
    /\ Gy' = GyPrior
    /\ kJ' = Unset
    /\ last' = "gcall"
    /\ follows' = FALSE
    /\ UNCHANGED <<params, v0>>

\* --------------------------------------------------------------- gycall
\* dae.add_jac(Gy, vals, rows, cols): vals[i] is added at (rows[i], cols[i])
RECURSIVE add_jac(_, _, _, _)
add_jac(M, vals, rows, cols) ==
    IF vals = <<>> THEN M
    ELSE add_jac([M EXCEPT ![<<Head(rows), Head(cols)>>] = RAdd(@, Head(vals))],
                 Tail(vals), Tail(rows), Tail(cols))

\* KJac with a stamp in the normal band too
KJacNormalToo(volt) ==
    IF forcez
    THEN (IF Truthy(v0) THEN div(scal(Two, volt), sq(v0)) ELSE zeros(n))
    ELSE vadd(vadd(vadd(zeros(n), mul(below, div(scal(Two, volt), sq(vmin)))),
                   mul(above, div(scal(Two, volt), sq(vmax)))),
              Normal(below, above))

\* the k of gycall outside forcepq, before the scaling by u
KJac(volt) ==
    IF forcez
    THEN (IF Truthy(v0) THEN div(scal(Two, volt), sq(v0)) ELSE zeros(n))
    ELSE vadd(vadd(zeros(n), mul(below, div(scal(Two, volt), sq(vmin)))),
              mul(above, div(scal(Two, volt), sq(vmax))))

\* In switching mode gycall multiplies by self.below and self.above, which
\* hold no vector before the first switching gcall: the call then raises.
gycall(yy) ==
    /\ forcepq \/ forcez \/ (below # Unset /\ above # Unset)
    /\ y' = yy
    /\ IF forcepq
       THEN /\ kJ' = zeros(n)
            /\ Gy' = GyPrior
       ELSE /\ kJ' = mul(u, KJac(yv(yy)))
            /\ Gy' = add_jac(add_jac(GyPrior, mul(p, kJ'), a, v),
                             mul(q, kJ'), v, v)
    /\ g' = GPrior
    /\ last' = "gycall"
    /\ follows' = (last = "gcall" /\ yy = y)
    /\ UNCHANGED <<params, p0, q0, v0, below, above, normal, k, kbranch>>

Next ==
    \/ init0
    \/ init1
    \/ \E yy \in Iterates : gcall(yy)
    \/ \E yy \in Iterates : gycall(yy)

Spec == Init /\ [][Next]_vars

\* =================================================================
\* Properties
\* =================================================================
Switching == ~forcez /\ ~forcepq
AfterSwitchG == last = "gcall" /\ kbranch = "switch"
AfterSwitchJ == last = "gycall" /\ Switching

\* the sum of f[i] over the indices i in S
RECURSIVE SumSet(_, _)
SumSet(S, f) ==
    IF S = {} THEN Zero
    ELSE LET x == CHOOSE x \in S : TRUE
         IN  RAdd(f[x], SumSet(S \ {x}, f))

\* what the instances together contribute to offset j of dae.g
GContrib(j) ==
    RAdd(SumSet({i \in 1..n : a[i] = j}, p0),
         SumSet({i \in 1..n : v[i] = j}, q0))

\* what the instances together contribute to cell c of Gy, given the
\* per-instance derivative factor kk
GyContrib(c, kk) ==
    RAdd(SumSet({i \in 1..n : a[i] = c[1] /\ v[i] = c[2]}, mul(p, kk)),
         SumSet({i \in 1..n : v[i] = c[1] /\ v[i] = c[2]}, mul(q, kk)))

\* (x / t)^2 and 2x / t^2
Scale(x, t) == RMul(RDiv(x, t), RDiv(x, t))
DScale(x, t) == RDiv(RAdd(x, x), RMul(t, t))

\* C1: after a residual evaluation in switching mode, for every instance
\* each of below, normal and above is 0 or 1 and exactly one of them is 1.
PartitionInv ==
    AfterSwitchG =>
        \A i \in 1..n :
            /\ {below[i], normal[i], above[i]} \subseteq {Zero, One}
            /\ Cardinality({w \in {"b", "n", "a"} :
                   (CASE w = "b" -> below[i] [] w = "n" -> normal[i]
                      [] w = "a" -> above[i]) = One}) = 1

PartitionWitness ==
    /\ AfterSwitchG
    /\ \E i, j \in 1..n : above[i] = One /\ normal[j] = One
    /\ \E i \in 1..n : vmin[i] # vmin[1]

RegimeResidual ==
    AfterSwitchG =>
        /\ \A i \in 1..n : u[i] = One =>
            LET x == y[v[i]]
                f == IF below[i] = One THEN Scale(x, vmin[i])
                     ELSE IF above[i] = One THEN Scale(x, vmax[i])
                     ELSE One
            IN  p0[i] = RMul(p[i], f) /\ q0[i] = RMul(q[i], f)
        /\ \A j \in Offsets : g[j] = RAdd(GPrior[j], GContrib(j))

RegimeWitness ==
    /\ AfterSwitchG
    /\ \E i \in 1..n :
        /\ u[i] = One /\ y[v[i]] = <<4, 5>> /\ vmin[i] = <<9, 10>>
        /\ below[i] = One
        /\ p0[i] = RMul(p[i], <<64, 81>>)
        /\ g[a[i]] # GPrior[a[i]]

\* C9: after a residual evaluation in switching mode, an instance whose
\* voltage is exactly vmin or exactly vmax contributes u p and u q, the
\* value of the normal branch, whichever indicator is 1 there.
ContinuityAtThresholds ==
    AfterSwitchG =>
        \A i \in 1..n :
            (y[v[i]] = vmin[i] \/ y[v[i]] = vmax[i]) =>
                /\ p0[i] = RMul(u[i], p[i])
                /\ q0[i] = RMul(u[i], q[i])

ContinuityWitness ==
    /\ AfterSwitchG
    /\ \E i \in 1..n :
        /\ u[i] = One /\ y[v[i]] = vmin[i] /\ p0[i] = p[i] /\ q0[i] = q[i]

Permute(s, pi) == [i \in 1..Len(s) |-> s[pi[i]]]

\* C3: after a residual evaluation, dae.g is what either path makes of the
\* instances taken in any order, and evaluating another model, which adds
\* to one offset, before PQ or after PQ gives the same dae.g; two
\* instances adding 5 and 3 at one offset add 8.
OrderIndependent ==
    last = "gcall" =>
        /\ \A pi \in Permutations(1..n) :
            LET aa == Permute(a, pi)
                vv == Permute(v, pi)
                pp == Permute(p0, pi)
                qq == Permute(q0, pi)
            IN  /\ LoopPath(GPrior, Zip(aa, vv, pp, qq)) = g
                /\ CooPath(GPrior, aa, vv, pp, qq) = g
        /\ \A j \in Offsets :
            LET x == <<4, 1>>
            IN  Assemble([GPrior EXCEPT ![j] = RAdd(@, x)], a, v, p0, q0)
                    = [g EXCEPT ![j] = RAdd(@, x)]
        /\ \A i, j \in 1..n :
            (/\ i # j /\ a[i] = a[j]
             /\ p0[i] = <<5, 1>> /\ p0[j] = <<3, 1>>
             /\ \A h \in 1..n : (h # i /\ h # j) => a[h] # a[i]
             /\ \A h \in 1..n : v[h] # a[i])
                => g[a[i]] = RAdd(GPrior[a[i]], <<8, 1>>)

OrderWitness ==
    /\ last = "gcall"
    /\ \E i, j \in 1..n :
        /\ i < j /\ a[i] = a[j] /\ p0[i] = <<5, 1>> /\ p0[j] = <<3, 1>>
        /\ g[a[i]] = RAdd(GPrior[a[i]], <<8, 1>>)
    /\ \E i, j \in 1..n :
        /\ i > j /\ a[i] = a[j] /\ p0[i] # p0[j]

\* C4: after a residual evaluation, the per-instance loop and the
\* coordinate-list path make the same dae.g of what the call found, which
\* is the dae.g the call left, whatever the instance count.
DenseSparseEquiv ==
    last = "gcall" =>
        /\ LoopPath(GPrior, Zip(a, v, p0, q0)) = CooPath(GPrior, a, v, p0, q0)
        /\ g = CooPath(GPrior, a, v, p0, q0)

DenseSparseWitness ==
    /\ last = "gcall"
    /\ n = Threshold + 1
    /\ \E i, j \in 1..n : i # j /\ a[i] = v[j] /\ q0[j] # Zero /\ p0[i] # Zero
    /\ \E i, j \in 1..n : i # j /\ a[i] = a[j] /\ p0[j] # Zero /\ p0[i] # Zero

\* C8: a residual evaluation leaves every offset of dae.g at what it held
\* plus what the instances contribute to it, and an offset no instance
\* refers to as it was; a Jacobian evaluation does the same to every cell
\* of Gy, and neither call changes the structure of the other.
AccumulateNeverReplace ==
    /\ last = "gcall" =>
        /\ \A j \in Offsets :
            /\ g[j] = RAdd(GPrior[j], GContrib(j))
            /\ (\A i \in 1..n : a[i] # j /\ v[i] # j) => g[j] = GPrior[j]
        /\ Gy = GyPrior
    /\ last = "gycall" =>
        /\ \A c \in Offsets \X Offsets :
            /\ Gy[c] = RAdd(GyPrior[c], GyContrib(c, kJ))
            /\ (\A i \in 1..n : v[i] # c[2] \/ (a[i] # c[1] /\ v[i] # c[1]))
                   => Gy[c] = GyPrior[c]
        /\ g = GPrior

AccumulateWitness ==
    /\ last = "gcall"
    /\ n > Threshold
    /\ \E j \in Offsets : \A i \in 1..n : a[i] # j /\ v[i] # j
    /\ \E j \in Offsets :
        /\ g[j] # GPrior[j]
        /\ Cardinality({i \in 1..n : a[i] = j /\ p0[i] # Zero}) > 1

\* C7: after a Jacobian evaluation in switching mode, below and above are
\* the indicators of the voltages of the iterate that evaluation was given.
IndicatorsCurrent ==
    AfterSwitchJ =>
        /\ below = altb(yv(y), vmin)
        /\ above = agtb(yv(y), vmax)

\* the per-instance derivative of the factor the last gcall used
DkOfGcall ==
    CASE kbranch = "z" -> [i \in 1..n |-> DScale(y[v[i]], v0[i])]
      [] kbranch = "one" -> zeros(n)
      [] kbranch = "switch" ->
            [i \in 1..n |-> IF below[i] = One THEN DScale(y[v[i]], vmin[i])
                            ELSE IF above[i] = One THEN DScale(y[v[i]], vmax[i])
                            ELSE Zero]

\* C10: a Jacobian evaluation right after a residual evaluation on the
\* same iterate stamps p u dk/dv and q u dk/dv, where k is the factor that
\* residual evaluation used, under every setting of forcez and forcepq
\* and whether or not v0 is set.
ModeConsistent ==
    (last = "gycall" /\ follows) =>
        \A c \in Offsets \X Offsets :
            Gy[c] = RAdd(GyPrior[c], GyContrib(c, mul(u, DkOfGcall)))

====
